---------------------------- MODULE Spec2Model ----------------------------
(***************************************************************************)
(* The device provisioning engine of finger_bot: the four-step flow        *)
(* Connect -> Configure WiFi -> Register -> Done that talks to an ESP32     *)
(* over one BLE characteristic.  The repository holds three revisions of   *)
(* the flow; the model runs each of them (variable rev):                   *)
(*   rev 1  frontend/src/app/(protected)/device-setup/page.tsx  1-561      *)
(*   rev 2  frontend/src/app/login/page.tsx                     202-830    *)
(*   rev 3  frontend/src/app/login/page.tsx                     832-1345   *)
(* A handler is an async function: it runs from one await to the next as   *)
(* one step; between two steps the user may click and other handlers may   *)
(* resume.  Every platform call (BLE, fetch) settles with an outcome the    *)
(* environment chooses.  A timer a handler awaits after a BLE operation    *)
(* (setTimeout in a Promise) elapses in the step that settled the          *)
(* operation: the handler touches nothing between the two, so no click and *)
(* no other handler can tell the difference.                               *)
(***************************************************************************)
EXTENDS Integers, Sequences, FiniteSets, TLC

\* ------------------------------------------------------------------ bounds
\* Clicks the page takes while a handler is still running.
MaxOverlap == 1
\* Handler invocations that may then be in flight at once.
MaxHandlers == MaxOverlap + 1
\* Longest payload, in bytes, handed to sendBleCommand on its own (SpecSend).
MaxLen == 45

\* ------------------------------------------------------- program constants
BLE_MTU_SIZE == 20
\* let retries = 5
MaxRetries == 5

Revs == {1, 2, 3}

\* ------------------------------------------------------------------- text
\* A string is a sequence of characters; a byte string a sequence of bytes.
\* An ASCII character is its own byte; the character U+E9 takes two bytes
\* in UTF-8.
NonAscii == {"U+E9"}

\* The concatenation of a sequence of sequences.
RECURSIVE Flatten(_)
Flatten(ss) ==
    IF Len(ss) = 0 THEN <<>>
    ELSE IF Len(ss) = 1 THEN ss[1]
    ELSE LET m == Len(ss) \div 2
         IN  Flatten(SubSeq(ss, 1, m)) \o Flatten(SubSeq(ss, m + 1, Len(ss)))

\* TextEncoder.encode
Utf8Encode(str) ==
    Flatten([k \in 1..Len(str) |->
                IF str[k] \in NonAscii THEN <<"C3", "A9">> ELSE <<str[k]>>])

\* String.prototype.trim: strips white space on both ends.
RECURSIVE TrimLeft(_)
TrimLeft(str) ==
    IF str # <<>> /\ Head(str) = " " THEN TrimLeft(Tail(str)) ELSE str

RECURSIVE TrimRight(_)
TrimRight(str) ==
    IF str # <<>> /\ str[Len(str)] = " "
    THEN TrimRight(SubSeq(str, 1, Len(str) - 1)) ELSE str

Trim(str) == TrimRight(TrimLeft(str))

Quoted(str) == <<"\"">> \o str \o <<"\"">>

S_command == <<"c","o","m","m","a","n","d">>
S_scan_wifi == <<"s","c","a","n","_","w","i","f","i">>
S_get_mac == <<"g","e","t","_","m","a","c">>
S_configure_wifi == <<"c","o","n","f","i","g","u","r","e","_","w","i","f","i">>
S_register_device == <<"r","e","g","i","s","t","e","r","_","d","e","v","i","c","e">>
S_ssid == <<"s","s","i","d">>
S_password == <<"p","a","s","s","w","o","r","d">>
S_server_host == <<"s","e","r","v","e","r","_","h","o","s","t">>
S_server_port == <<"s","e","r","v","e","r","_","p","o","r","t">>
S_tcp_port == <<"t","c","p","_","p","o","r","t">>
S_name == <<"n","a","m","e">>

\* One "key":value member; the value already serialized.
Member(key, val) == Quoted(key) \o <<":">> \o val

\* JSON.stringify of the four command objects, keys in source order.
JsonStringify(cmd) ==
    LET head == <<"{">> \o Member(S_command, Quoted(cmd.command))
    IN  CASE cmd.command = S_configure_wifi ->
               head \o <<",">> \o Member(S_ssid, Quoted(cmd.ssid))
                    \o <<",">> \o Member(S_password, Quoted(cmd.password))
                    \o <<",">> \o Member(S_server_host, Quoted(cmd.server_host))
                    \o <<",">> \o Member(S_server_port, <<"3","0","0","0">>)
                    \o <<",">> \o Member(S_tcp_port, cmd.tcp_port)
                    \o <<"}">>
          [] cmd.command = S_register_device ->
               head \o <<",">> \o Member(S_name, Quoted(cmd.name)) \o <<"}">>
          [] OTHER -> head \o <<"}">>

EncodeCommand(cmd) == Utf8Encode(JsonStringify(cmd))

Min(a, b) == IF a < b THEN a ELSE b

\* Slice with its end one byte early: every full chunk loses its last byte.
SliceShort(enc, i) == SubSeq(enc, i + 1, Min(i + BLE_MTU_SIZE - 1, Len(enc)))

\* encodedCommand.slice(i, i + BLE_MTU_SIZE), i a 0-based offset
Slice(enc, i) == SubSeq(enc, i + 1, Min(i + BLE_MTU_SIZE, Len(enc)))

\* ------------------------------------------------------------ input sets
HomeNet == <<"H","o","m","e","N","e","t">>
Guest == <<"G","u","e","s","t">>

\* Network lists the peer may report
NetworkLists == {<<>>, <<HomeNet, Guest, HomeNet>>}
Passwords == {<<>>, <<"p","U+E9">>}
DeviceNames == {<<>>, <<" ">>, <<"d","e","v">>}
Macs == {"AA:01", "AA:02"}
NoMac == "null"
Devices == {"dev1", "dev2"}
DevIndex(d) == IF d = "dev1" THEN 1 ELSE 2
NoSession == [dev |-> "null", hasChar |-> FALSE]

\* A parsed response of the peer: the fields the engine looks at.  has names
\* the field the object carries ("none": an object with none of them).
NoResp == [has |-> "none", networks |-> <<>>, status |-> "", mac |-> ""]
Responses ==
    {[NoResp EXCEPT !.has = "networks", !.networks = l] : l \in NetworkLists}
    \cup {[NoResp EXCEPT !.has = "status", !.status = st] :
              st \in {"success", "error"}}
    \cup {[NoResp EXCEPT !.has = "mac", !.mac = m] : m \in Macs}
    \cup {NoResp}
\* What a settled readValue gives: a thrown error whose message holds
\* 'GATT operation failed' ("gatt"), any other thrown error ("other"), an
\* empty payload, text that is no JSON, or a parsed object.
Throws == {"gatt", "other"}
ReadOutcomes ==
    [kind : Throws \cup {"empty", "badjson"}, r : {NoResp}]
    \cup [kind : {"json"}, r : Responses]

\* ------------------------------------------------------------------ state
VARIABLES
    rev,                \* which revision of the page runs
    supported,          \* 'bluetooth' in navigator
    activeStep, loading, error, deviceName, wifiNetworks,
    selectedNetwork, wifiPassword, bluetoothDevice, registeredDeviceId,
    urlMac,             \* searchParams.get('mac')
    connected,          \* devices whose gatt.connected is true
    redirect,           \* pending setTimeout(router.push('/devices'), 3000)
    navigated,          \* router.push('/devices') ran: the page is left
    overlaps,           \* clicks taken while a handler was running
    procs,              \* the handler invocations
    macPeer,            \* the peer that sent the deviceMac (SpecPeers)
    cfgPeer,            \* the peer the last configure_wifi went to (SpecPeers)
    report              \* what the step just taken did

vars == <<rev, supported, activeStep, loading, error, deviceName,
          wifiNetworks, selectedNetwork, wifiPassword, bluetoothDevice,
          registeredDeviceId, urlMac, connected, redirect, navigated,
          overlaps, procs, macPeer, cfgPeer, report>>

Handlers == 1..MaxHandlers

\* What one exchange (the command, the warm-up wait, the reads) has done:
\* the readValue calls, the waits, whether the last thing it did was an
\* inter-attempt wait, whether every read so far returned without
\* throwing and without a response that carries a status (quiet), and
\* whether every scan_wifi read so far that stored no list returned an empty
\* payload (blank).
NoEx == [ctx |-> "none", reads |-> 0, warmups |-> 0, waits |-> 0,
         trailing |-> FALSE, quiet |-> TRUE, blank |-> TRUE]

\* What one step did: the handler that returned in it (kind, finished, its
\* deviceMac and the last status it read), the exchange that ended in it
\* (ex), whether a configure_wifi write or read threw a GATT error in it,
\* the calls of setActiveStep, setError and setWifiNetworks made in it.
\* (success, the message setSuccess shows, is left out: nothing reads it.)
NoReport ==
    [kind |-> "none", finished |-> FALSE, deviceMac |-> NoMac,
     status |-> "none", gatt |-> FALSE, setStep |-> -1, setErr |-> FALSE,
     stored |-> FALSE, ex |-> NoEx,
     sendThrew |-> FALSE, enc |-> <<>>, written |-> <<>>]

\* One invocation of an async function: its closure (deviceMac, bt, name,
\* ssid, pass), its locals, where it is suspended (pc), and what it has done.
Idle ==
    [kind |-> "none", pc |-> "idle", ctx |-> "none",
     deviceMac |-> NoMac, bt |-> NoSession, name |-> <<>>, ssid |-> <<>>,
     pass |-> <<>>,
     enc |-> <<>>, i |-> 0, written |-> <<>>,
     retries |-> 0, resp |-> NoResp, wifiConfigured |-> FALSE,
     macAddress |-> NoMac, exc |-> "none", status |-> "none",
     body |-> [name |-> <<>>, device_id |-> NoMac],
     cur |-> NoEx]

\* The whole state as one record, so that the synchronous code between two
\* awaits is a composition of functions on it.  A step starts with an empty
\* report.
\* macPeer and cfgPeer record history for the behaviours of SpecPeers; in
\* every other specification they stay NotTraced.
NotTraced == "notTraced"
Traced(old, d) == IF old = NotTraced THEN old ELSE d

Cur ==
    [rev |-> rev, supported |-> supported, activeStep |-> activeStep,
     loading |-> loading, error |-> error,
     deviceName |-> deviceName, wifiNetworks |-> wifiNetworks,
     selectedNetwork |-> selectedNetwork, wifiPassword |-> wifiPassword,
     bluetoothDevice |-> bluetoothDevice,
     registeredDeviceId |-> registeredDeviceId, urlMac |-> urlMac,
     connected |-> connected, redirect |-> redirect,
     navigated |-> navigated, overlaps |-> overlaps, procs |-> procs,
     macPeer |-> macPeer, cfgPeer |-> cfgPeer,
     report |-> NoReport]

Becomes(s) ==
    /\ rev' = s.rev
    /\ supported' = s.supported
    /\ activeStep' = s.activeStep
    /\ loading' = s.loading
    /\ error' = s.error
    /\ deviceName' = s.deviceName
    /\ wifiNetworks' = s.wifiNetworks
    /\ selectedNetwork' = s.selectedNetwork
    /\ wifiPassword' = s.wifiPassword
    /\ bluetoothDevice' = s.bluetoothDevice
    /\ registeredDeviceId' = s.registeredDeviceId
    /\ urlMac' = s.urlMac
    /\ connected' = s.connected
    /\ redirect' = s.redirect
    /\ navigated' = s.navigated
    /\ overlaps' = s.overlaps
    /\ procs' = s.procs
    /\ macPeer' = s.macPeer
    /\ cfgPeer' = s.cfgPeer
    /\ report' = s.report

At(s, h, pc) == [s EXCEPT !.procs[h].pc = pc]

\* The handler returns: its slot is free again, and the report says which
\* handler it was.
Finish(s, h) ==
    LET p == s.procs[h]
    IN  [s EXCEPT !.procs[h] = Idle,
                  !.report.kind = p.kind, !.report.finished = TRUE,
                  !.report.deviceMac = p.deviceMac,
                  !.report.status = p.status,
                  !.report.enc = IF p.kind = "send" THEN p.enc ELSE <<>>,
                  !.report.written =
                      IF p.kind = "send" THEN p.written ELSE <<>>]

SetError(s, h, tag) ==
    [s EXCEPT !.error = tag, !.report.setErr = TRUE]

SetActiveStep(s, h, n) ==
    [s EXCEPT !.activeStep = n, !.report.setStep = n]

\* --------------------------------------------------------- sendBleCommand
\* SendStart with a first write that is always a slice, one byte short.
SendStartCut(s, h, enc, ctx) ==
    [s EXCEPT !.procs[h].ctx = ctx, !.procs[h].enc = enc,
              !.procs[h].i = 0,
              !.procs[h].written = <<SliceShort(enc, 0)>>,
              !.procs[h].pc = "write"]

\* sendBleCommand up to its first await: the command is encoded and the
\* first writeValue is issued, with the whole payload when it fits the MTU
\* and with its first slice otherwise.  written lists the arguments of the
\* writeValue calls made for this command.
SendStart(s, h, enc, ctx) ==
    LET first == IF Len(enc) <= BLE_MTU_SIZE THEN enc ELSE Slice(enc, 0)
    IN  [s EXCEPT !.procs[h].ctx = ctx, !.procs[h].enc = enc,
                  !.procs[h].i = 0, !.procs[h].written = <<first>>,
                  !.procs[h].pc = "write"]

\* A writeValue resolved: an unchunked command is sent; a chunk is followed
\* by the inter-chunk delay.
SendWritten(s, h) ==
    IF Len(s.procs[h].enc) <= BLE_MTU_SIZE
    THEN At(s, h, "sent")
    ELSE At(s, h, "chunkDelay")

\* The inter-chunk delay elapsed: i += BLE_MTU_SIZE, and the next slice is
\* written while i < encodedCommand.length.  Revisions 2 and 3 wait once
\* more after the last chunk.
SendNextChunk(s, h) ==
    LET p == s.procs[h]
        j == p.i + BLE_MTU_SIZE
    IN  IF j < Len(p.enc)
        THEN [s EXCEPT !.procs[h].i = j,
                       !.procs[h].written = Append(p.written, Slice(p.enc, j)),
                       !.procs[h].pc = "write"]
        ELSE [s EXCEPT !.procs[h].i = j,
                       !.procs[h].pc = IF s.rev = 1 THEN "sent"
                                       ELSE "finalDelay"]

\* WriteSettled that writes the chunk again when the write was rejected.
WriteSettledRetry(s, h, o) ==
    IF o = "ok" THEN SendWritten(s, h)
    ELSE [s EXCEPT !.procs[h].written = Append(@, @[Len(@)]),
                   !.procs[h].pc = "write"]

\* A settled writeValue: resolved, or rejected with exc.
WriteSettled(s, h, o) ==
    IF o = "ok" THEN SendWritten(s, h)
    ELSE [s EXCEPT !.procs[h].pc = "sendThrew", !.procs[h].exc = o]

\* ----------------------------------------------------- exchange bookkeeping
BeginExchange(s, h, ctx) == [s EXCEPT !.procs[h].cur = [NoEx EXCEPT !.ctx = ctx]]

\* await characteristic.readValue()
IssueRead(s, h) ==
    [s EXCEPT !.procs[h].pc = "read",
              !.procs[h].cur.reads = @ + 1,
              !.procs[h].cur.trailing = FALSE]

\* await new Promise(resolve => setTimeout(resolve, 1000)) between attempts
EnterWait(s, h) ==
    [s EXCEPT !.procs[h].pc = "retryWait",
              !.procs[h].cur.waits = @ + 1,
              !.procs[h].cur.trailing = TRUE]

EndExchange(s, h) ==
    [s EXCEPT !.report.ex = s.procs[h].cur, !.procs[h].cur = NoEx,
              !.procs[h].retries = 0, !.procs[h].resp = NoResp,
              !.procs[h].ctx = "none", !.procs[h].enc = <<>>,
              !.procs[h].i = 0, !.procs[h].written = <<>>]

\* retries--; if (retries > 0) wait, else go on to the loop condition
NextAttempt(s, h, cond) ==
    LET r == s.procs[h].retries - 1
        s1 == [s EXCEPT !.procs[h].retries = r]
    IN  IF r > 0 THEN EnterWait(s1, h) ELSE At(s1, h, cond)

\* --------------------------------------------------------- getMacAddress
\* Revision 2, login/page.tsx 540-574: called by connectToDevice and by
\* registerDevice.  The result is left in macAddress.
GetMacCommand == EncodeCommand([command |-> S_get_mac])

GetMacReturn(s, h, mac) ==
    At(EndExchange([s EXCEPT !.procs[h].macAddress = mac], h), h, "getMacEnd")

GetMacAddress(s, h) ==
    LET p == s.procs[h]
    IN  IF p.deviceMac = NoMac
        THEN IF p.bt.hasChar
             THEN SendStart(BeginExchange(s, h, "getmac2"), h, GetMacCommand,
                            "getmac2")
             ELSE GetMacReturn(s, h, p.deviceMac)   \* TypeError, caught
        ELSE GetMacReturn(s, h, p.deviceMac)

\* The single read of getMacAddress settled.
GetMacRead(s, h, o) ==
    LET p == s.procs[h]
    IN  IF o.kind = "json" /\ o.r.has = "mac"
        THEN GetMacReturn([s EXCEPT !.urlMac = o.r.mac,
                                    !.macPeer = Traced(@, p.bt.dev)],
                          h, o.r.mac)
        ELSE GetMacReturn(
                 [s EXCEPT !.procs[h].cur.quiet = (o.kind \notin Throws)],
                 h, p.deviceMac)

GetMacEnd(s, h) ==
    At(s, h, IF s.procs[h].kind = "connect" THEN "scanStart" ELSE "regHaveMac")

\* The response a loop keeps in its variable: of a parsed object only the
\* field the loop reads again (response?.networks, response?.status,
\* macResponse?.mac) is kept.
Kept(r, field) == IF r.has = field THEN r ELSE NoResp

\* ------------------------------------------------------ scanWifiNetworks
ScanCommand == EncodeCommand([command |-> S_scan_wifi])

ScanStart(s, h) ==
    LET s1 == BeginExchange([s EXCEPT !.loading = TRUE, !.error = "none"],
                            h, "scan")
    IN  IF s.procs[h].bt.hasChar
        THEN SendStart(s1, h, ScanCommand, "scan")
        ELSE At(s1, h, "scanCatch")            \* TypeError on undefined

\* ScanRead that stores the list without its repeated SSIDs.
RECURSIVE Unique(_)
Unique(l) ==
    IF l = <<>> THEN <<>>
    ELSE LET front == Unique(SubSeq(l, 1, Len(l) - 1))
             last == l[Len(l)]
         IN  IF \E k \in 1..Len(front) : front[k] = last THEN front
             ELSE Append(front, last)

ScanReadUnique(s, h, o) ==
    IF o.kind = "json"
    THEN LET s1 == [s EXCEPT !.procs[h].resp = Kept(o.r, "networks"),
                             !.procs[h].cur.blank = FALSE]
         IN  IF o.r.has = "networks" /\ Len(o.r.networks) > 0
             THEN At([s EXCEPT !.procs[h].resp = Kept(o.r, "networks"),
                               !.wifiNetworks = Unique(o.r.networks),
                               !.report.stored = TRUE], h,
                     "scanAfterLoop")
             ELSE NextAttempt(s1, h, "scanCond")
    ELSE NextAttempt([s EXCEPT !.procs[h].cur.quiet =
                                   (@ /\ o.kind \notin Throws),
                               !.procs[h].cur.blank =
                                   (@ /\ o.kind = "empty")],
                     h, "scanCond")

\* ScanRead with a thrown read that ends the scan.
ScanReadFatal(s, h, o) ==
    IF o.kind = "json"
    THEN LET s1 == [s EXCEPT !.procs[h].resp = Kept(o.r, "networks")]
         IN  IF o.r.has = "networks" /\ Len(o.r.networks) > 0
             THEN At([s1 EXCEPT !.wifiNetworks = o.r.networks,
                                !.report.stored = TRUE], h,
                     "scanAfterLoop")
             ELSE NextAttempt([s1 EXCEPT !.procs[h].cur.blank = FALSE],
                              h, "scanCond")
    ELSE IF o.kind \in Throws
    THEN At([s EXCEPT !.procs[h].cur.quiet = FALSE,
                      !.procs[h].cur.blank = FALSE], h, "scanCatch")
    ELSE NextAttempt([s EXCEPT !.procs[h].cur.blank =
                                   (@ /\ o.kind = "empty")],
                     h, "scanCond")

\* One read of the scan loop settled.
ScanRead(s, h, o) ==
    IF o.kind = "json"
    THEN LET s1 == [s EXCEPT !.procs[h].resp = Kept(o.r, "networks")]
         IN  IF o.r.has = "networks" /\ Len(o.r.networks) > 0
             THEN At([s1 EXCEPT !.wifiNetworks = o.r.networks,
                                !.report.stored = TRUE], h,
                     "scanAfterLoop")
             ELSE NextAttempt([s1 EXCEPT !.procs[h].cur.blank = FALSE],
                              h, "scanCond")
    ELSE NextAttempt([s EXCEPT !.procs[h].cur.quiet =
                                   (@ /\ o.kind \notin Throws),
                               !.procs[h].cur.blank =
                                   (@ /\ o.kind = "empty")],
                     h, "scanCond")

\* while (retries > 0 && !response?.networks)
ScanCond(s, h) ==
    LET p == s.procs[h]
    IN  IF p.retries > 0 /\ p.resp.has # "networks"
        THEN IssueRead(s, h)
        ELSE At(s, h, "scanAfterLoop")

\* if (!response?.networks) throw
ScanAfterLoop(s, h) ==
    IF s.procs[h].resp.has # "networks"
    THEN At(s, h, "scanCatch")
    ELSE At(s, h, "scanFinally")

ScanCatch(s, h) == At(SetError(s, h, "scan"), h, "scanFinally")

ScanFinally(s, h) ==
    At(EndExchange([s EXCEPT !.loading = FALSE], h), h, "connectAfterScan")

\* -------------------------------------------------------- connectToDevice
ConnectCatch(s, h) ==
    Finish([SetError(s, h, "connect") EXCEPT !.loading = FALSE], h)

\* setBluetoothDevice, setSuccess, then getMacAddress (revision 2) and
\* scanWifiNetworks
ConnectGotChar(s, h) ==
    At([s EXCEPT !.bluetoothDevice = s.procs[h].bt],
       h, IF s.rev = 2 THEN "getMac" ELSE "scanStart")

\* scanWifiNetworks returned: setActiveStep(1), finally setLoading(false)
ConnectAfterScan(s, h) ==
    Finish([SetActiveStep(s, h, 1) EXCEPT !.loading = FALSE], h)

\* ConnectStart without the check of navigator.bluetooth.
ConnectStartUnchecked(s, h) ==
    At([s EXCEPT !.loading = TRUE, !.error = "none",
                 !.procs[h] = [Idle EXCEPT !.kind = "connect",
                                           !.deviceMac = s.urlMac]],
       h, "requestDevice")

\* connectToDevice up to its first await
ConnectStart(s, h) ==
    LET s1 == [s EXCEPT !.loading = TRUE, !.error = "none",
                        !.procs[h] = [Idle EXCEPT !.kind = "connect",
                                                  !.deviceMac = s.urlMac]]
    IN  IF s.supported THEN At(s1, h, "requestDevice")
        ELSE At(s1, h, "connectCatch")

\* requestDevice resolved with device d; device.gatt?.connect() follows,
\* and without a gatt the three handles are undefined.
ConnectGotDevice(s, h, d, gatt) ==
    LET s1 == [s EXCEPT !.procs[h].bt = [dev |-> d, hasChar |-> FALSE]]
    IN  IF gatt THEN At(s1, h, "gattConnect") ELSE At(s1, h, "connectGotChar")

\* ---------------------------------------------------------- configureWifi
\* What GET /server-info answers
ServerHost == <<"h">>
TcpPort == <<"9">>

ConfigCommand(p) ==
    EncodeCommand([command |-> S_configure_wifi, ssid |-> p.ssid,
                   password |-> p.pass, server_host |-> ServerHost,
                   tcp_port |-> TcpPort])

\* The catch block of configureWifi, with the finally.  Revision 1 reports
\* every error; revisions 2 and 3 take an error whose message holds 'GATT
\* operation failed' for the peer's expected disconnect.
ConfigureCatch(s, h) ==
    LET p == s.procs[h]
        s1 == IF s.rev # 1 /\ p.exc = "gatt"
              THEN IF p.deviceMac # NoMac
                   THEN SetActiveStep(s, h, 2)
                   ELSE SetError(s, h, "disconnected")
              ELSE SetError(s, h, "configure")
    IN  Finish([s1 EXCEPT !.loading = FALSE], h)

\* setActiveStep(2), finally setLoading(false)
ConfigureAdvance(s, h) ==
    Finish([SetActiveStep(s, h, 2) EXCEPT !.loading = FALSE], h)

\* ConfigureStart without its two guards.
ConfigureStartUnguarded(s, h) ==
    At([s EXCEPT !.loading = TRUE, !.error = "none",
                 !.procs[h] =
                     [Idle EXCEPT !.kind = "configure",
                                  !.deviceMac = s.urlMac,
                                  !.bt = s.bluetoothDevice,
                                  !.ssid = s.selectedNetwork,
                                  !.pass = s.wifiPassword]],
       h, "serverInfo")

\* configureWifi up to its first await
ConfigureStart(s, h) ==
    LET s1 == [s EXCEPT !.procs[h] =
                   [Idle EXCEPT !.kind = "configure", !.deviceMac = s.urlMac,
                                !.bt = s.bluetoothDevice,
                                !.ssid = s.selectedNetwork,
                                !.pass = s.wifiPassword]]
    IN  IF ~s.bluetoothDevice.hasChar
        THEN Finish(SetError(s1, h, "notConnected"), h)
        ELSE IF s.selectedNetwork = <<>> \/ s.wifiPassword = <<>>
        THEN Finish(SetError(s1, h, "selectNetwork"), h)
        ELSE At([s1 EXCEPT !.loading = TRUE, !.error = "none"], h,
                "serverInfo")

\* serverInfoResponse.json() resolved: the command is built and sent
ConfigureSend(s, h) ==
    SendStart(BeginExchange(
                  [s EXCEPT !.cfgPeer = Traced(@, s.procs[h].bt.dev)],
                  h, "configure"),
              h, ConfigCommand(s.procs[h]), "configure")

\* The 5000 ms wait after the command elapsed.  Revision 3 assumes success;
\* revisions 1 and 2 enter the read loop.
ConfigureWaited(s, h) ==
    IF s.rev = 3
    THEN At(EndExchange(s, h), h, "configureAdvance")
    ELSE IssueRead([s EXCEPT !.procs[h].retries = MaxRetries,
                             !.procs[h].resp = NoResp,
                             !.procs[h].wifiConfigured = FALSE], h)

\* One read of the status loop settled.  In revision 1 the Error thrown for
\* status 'error' is caught by the loop's own catch (readError); in revision
\* 2 it is caught by the inner catch (jsonError), and a read that failed
\* with a GATT error counts as a configured peer.
ConfigureRead(s, h, o) ==
    LET s0 == [s EXCEPT !.procs[h].cur.quiet =
                            (@ /\ o.kind \notin Throws
                               /\ ~(o.kind = "json" /\ o.r.has = "status")),
                        !.report.gatt = (o.kind = "gatt")]
    IN  IF o.kind = "json"
        THEN LET s1 == [s0 EXCEPT !.procs[h].resp = Kept(o.r, "status"),
                                  !.procs[h].status =
                                      IF o.r.has = "status" THEN o.r.status
                                      ELSE @]
             IN  IF o.r.has = "status" /\ o.r.status = "success"
                 THEN At([s1 EXCEPT !.procs[h].wifiConfigured = TRUE],
                         h, "cfgAfterLoop")
                 ELSE NextAttempt(s1, h, "cfgCond")
        ELSE IF s.rev = 2 /\ o.kind = "gatt"
        THEN At([s0 EXCEPT !.procs[h].wifiConfigured = TRUE],
                h, "cfgAfterLoop")
        ELSE NextAttempt(s0, h, "cfgCond")

\* while (retries > 0 && !response?.status)        revision 1
\* while (retries > 0 && !wifiConfigured)           revision 2
ConfigureCond(s, h) ==
    LET p == s.procs[h]
        again == IF s.rev = 1 THEN p.resp.has # "status"
                 ELSE ~p.wifiConfigured
    IN  IF p.retries > 0 /\ again THEN IssueRead(s, h)
        ELSE At(s, h, "cfgAfterLoop")

\* ConfigureAfterLoop without its throws: whatever the loop read, the
\* handler goes on.
ConfigureAfterLoopGoOn(s, h) ==
    LET s1 == EndExchange(s, h)
    IN  IF s.rev = 1
        THEN SendStart(BeginExchange(s1, h, "getmac1"), h, GetMacCommand,
                       "getmac1")
        ELSE At(s1, h, "configureAdvance")

\* After the status loop.  Revision 1 throws without a status and asks for
\* the MAC otherwise; revision 2 goes on when the peer is configured or a
\* deviceMac is known, and throws otherwise.
ConfigureAfterLoop(s, h) ==
    LET p == s.procs[h]
        s1 == EndExchange(s, h)
    IN  IF s.rev = 1
        THEN IF p.resp.has # "status"
             THEN At([s1 EXCEPT !.procs[h].exc = "other"], h, "configureCatch")
             ELSE SendStart(BeginExchange(s1, h, "getmac1"), h, GetMacCommand,
                            "getmac1")
        ELSE IF p.wifiConfigured
             THEN At(s1, h, "configureAdvance")
             ELSE IF p.deviceMac # NoMac
             THEN At(s1, h, "configureAdvance")
             ELSE At([s1 EXCEPT !.procs[h].exc = "other"], h, "configureCatch")

\* Revision 1, the get_mac exchange of configureWifi: one read settled.
\* The URL gets the MAC only when the closure's deviceMac is null and the
\* URL holds none.
MacRead(s, h, o) ==
    LET p == s.procs[h]
        s0 == [s EXCEPT !.procs[h].cur.quiet = (@ /\ o.kind \notin Throws)]
    IN  IF o.kind = "json"
        THEN LET s1 == [s0 EXCEPT !.procs[h].resp = Kept(o.r, "mac")]
             IN  IF o.r.has = "mac"
                 THEN At(IF p.deviceMac = NoMac /\ s.urlMac = NoMac
                         THEN [s1 EXCEPT !.urlMac = o.r.mac,
                                         !.macPeer = Traced(@, p.bt.dev)]
                         ELSE s1,
                         h, "macAfterLoop")
                 ELSE NextAttempt(s1, h, "macCond")
        ELSE NextAttempt(s0, h, "macCond")

\* while (retries > 0 && !macResponse?.mac)
MacCond(s, h) ==
    LET p == s.procs[h]
    IN  IF p.retries > 0 /\ p.resp.has # "mac" THEN IssueRead(s, h)
        ELSE At(s, h, "macAfterLoop")

MacAfterLoop(s, h) ==
    LET p == s.procs[h]
        s1 == EndExchange(s, h)
    IN  IF p.resp.has # "mac"
        THEN At([s1 EXCEPT !.procs[h].exc = "other"], h, "configureCatch")
        ELSE At(s1, h, "configureAdvance")

\* --------------------------------------------------------- registerDevice
RegisterCommand(p) ==
    EncodeCommand([command |-> S_register_device, name |-> p.name])

\* gatt.connected of the session the closure holds
GattConnected(s, h) == s.procs[h].bt.dev \in s.connected

\* RegisterCatch that also drops the GATT link.
RegisterCatchDisconnect(s, h) ==
    Finish([SetError(s, h, "register") EXCEPT
                !.loading = FALSE,
                !.connected = @ \ {s.procs[h].bt.dev}], h)

\* The catch block of registerDevice, with the finally
RegisterCatch(s, h) ==
    Finish([SetError(s, h, "register") EXCEPT !.loading = FALSE], h)

\* setLoading(true), setError(null), then POST /devices with
\* {name: deviceName, device_id: macAddress}
RegisterPost(s, h) ==
    LET p == s.procs[h]
    IN  At([s EXCEPT !.loading = TRUE, !.error = "none",
                     !.procs[h].body = [name |-> p.name,
                                        device_id |-> p.macAddress]],
           h, "post")

\* RegisterHaveMac without the check of macAddress.
RegisterAnyMac(s, h) == At(s, h, "regPost")

\* if (!macAddress) { setError; return }
RegisterHaveMac(s, h) ==
    IF s.procs[h].macAddress = NoMac
    THEN Finish(SetError(s, h, "mac"), h)
    ELSE At(s, h, "regPost")

\* RegisterStart without the check of the device name.
RegisterStartAnyName(s, h) ==
    LET s1 == [s EXCEPT !.procs[h] =
                   [Idle EXCEPT !.kind = "register", !.deviceMac = s.urlMac,
                                !.bt = s.bluetoothDevice,
                                !.name = s.deviceName,
                                !.macAddress = s.urlMac]]
    IN  IF s.rev = 2 /\ s.urlMac = NoMac /\ GattConnected(s1, h)
           /\ s.bluetoothDevice.hasChar
        THEN At(s1, h, "getMac")
        ELSE At(s1, h, "regHaveMac")

\* registerDevice up to its first await.  Revisions 1 and 3 need the
\* deviceMac of the URL; revision 2 asks the peer for it when it is unknown
\* and the peer is connected.
RegisterStart(s, h) ==
    LET s1 == [s EXCEPT !.procs[h] =
                   [Idle EXCEPT !.kind = "register", !.deviceMac = s.urlMac,
                                !.bt = s.bluetoothDevice,
                                !.name = s.deviceName,
                                !.macAddress = s.urlMac]]
    IN  IF Trim(s.deviceName) = <<>>
        THEN Finish(SetError(s1, h, "name"), h)
        ELSE IF s.rev = 2 /\ s.urlMac = NoMac /\ GattConnected(s1, h)
                /\ s.bluetoothDevice.hasChar
        THEN At(s1, h, "getMac")
        ELSE At(s1, h, "regHaveMac")

\* response.json() resolved: setRegisteredDeviceId; revision 2 then sends
\* register_device to a peer that is still connected.
RegisterGotDevice(s, h, id) ==
    LET s1 == [s EXCEPT !.registeredDeviceId = id]
    IN  IF s.rev = 2 /\ GattConnected(s, h) /\ s.procs[h].bt.hasChar
        THEN SendStart(s1, h, RegisterCommand(s.procs[h]), "regcmd")
        ELSE At(s1, h, "regDone")

\* setActiveStep(3), gatt.disconnect() when connected (dc: it
\* returns; otherwise it throws and the link stays), the redirect timer,
\* finally setLoading(false).
RegisterDone(s, h, dc) ==
    LET s1 == SetActiveStep(s, h, 3)
        s2 == IF GattConnected(s1, h) /\ dc
              THEN [s1 EXCEPT !.connected = @ \ {s.procs[h].bt.dev}]
              ELSE s1
    IN  Finish([s2 EXCEPT !.redirect = @ + 1, !.loading = FALSE], h)

\* ------------------------------------------------------------- dispatch
\* sendBleCommand returned to its caller.
AfterSend(s, h) ==
    LET p == s.procs[h]
    IN  IF p.kind = "send" THEN Finish(s, h)
        ELSE At(s, h, "warmup")

\* SendThrew with a register_device failure that is fatal for Register.
SendThrewFatal(s0, h) ==
    LET s == [s0 EXCEPT !.report.sendThrew = TRUE]
    IN  IF s0.procs[h].ctx = "regcmd"
        THEN Finish([SetError(EndExchange(s, h), h, "register") EXCEPT
                         !.loading = FALSE], h)
        ELSE Finish(s, h)

\* sendBleCommand threw exc: the catch of the call site.
SendThrew(s0, h) ==
    LET p == s0.procs[h]
        s == [s0 EXCEPT !.report.sendThrew = TRUE]
    IN  CASE p.ctx = "scan" -> At(s, h, "scanCatch")
          [] p.ctx = "getmac2" ->
                GetMacReturn([s EXCEPT !.procs[h].cur.quiet = FALSE], h,
                             p.deviceMac)
          [] p.ctx = "regcmd" -> At(EndExchange(s, h), h, "regDone")
          [] p.ctx \in {"configure", "getmac1"} ->
                At(EndExchange([s EXCEPT !.report.gatt = (p.exc = "gatt"),
                                         !.procs[h].cur.quiet = FALSE], h),
                   h, "configureCatch")
          [] OTHER -> Finish(s, h)

\* The wait that follows a command elapsed.
Waited(s, h) ==
    LET p == s.procs[h]
        s1 == [s EXCEPT !.procs[h].cur.warmups = @ + 1]
        loop == [s1 EXCEPT !.procs[h].retries = MaxRetries,
                           !.procs[h].resp = NoResp]
    IN  CASE p.ctx = "scan" -> At(loop, h, "scanCond")
          [] p.ctx = "configure" -> ConfigureWaited(s1, h)
          [] p.ctx = "getmac1" -> At(loop, h, "macCond")
          [] p.ctx = "getmac2" -> IssueRead(s1, h)
          [] OTHER -> At(EndExchange(s1, h), h, "regDone")

\* A readValue settled with outcome o.
ReadSettled(s, h, o) ==
    LET p == s.procs[h]
    IN  CASE p.ctx = "scan" -> ScanRead(s, h, o)
          [] p.ctx = "configure" -> ConfigureRead(s, h, o)
          [] p.ctx = "getmac1" -> MacRead(s, h, o)
          [] OTHER -> GetMacRead(s, h, o)

\* The inter-attempt wait elapsed: back to the loop condition.
RetryWaited(s, h) ==
    LET p == s.procs[h]
    IN  At(s, h, CASE p.ctx = "scan" -> "scanCond"
                   [] p.ctx = "configure" -> "cfgCond"
                   [] OTHER -> "macCond")

\* The synchronous code of a handler runs on until it awaits or returns.
RECURSIVE Run(_, _, _)
Run(s, h, dc) ==
    LET pc == s.procs[h].pc
    IN  CASE pc = "sent" -> Run(AfterSend(s, h), h, dc)
          [] pc = "sendThrew" -> Run(SendThrew(s, h), h, dc)
          [] pc = "chunkDelay" -> Run(SendNextChunk(s, h), h, dc)
          [] pc = "finalDelay" -> Run(At(s, h, "sent"), h, dc)
          [] pc = "warmup" -> Run(Waited(s, h), h, dc)
          [] pc = "retryWait" -> Run(RetryWaited(s, h), h, dc)
          [] pc = "getMac" -> Run(GetMacAddress(s, h), h, dc)
          [] pc = "getMacEnd" -> Run(GetMacEnd(s, h), h, dc)
          [] pc = "scanStart" -> Run(ScanStart(s, h), h, dc)
          [] pc = "scanCond" -> Run(ScanCond(s, h), h, dc)
          [] pc = "scanAfterLoop" -> Run(ScanAfterLoop(s, h), h, dc)
          [] pc = "scanCatch" -> Run(ScanCatch(s, h), h, dc)
          [] pc = "scanFinally" -> Run(ScanFinally(s, h), h, dc)
          [] pc = "connectAfterScan" -> Run(ConnectAfterScan(s, h), h, dc)
          [] pc = "connectGotChar" -> Run(ConnectGotChar(s, h), h, dc)
          [] pc = "connectCatch" -> Run(ConnectCatch(s, h), h, dc)
          [] pc = "cfgCond" -> Run(ConfigureCond(s, h), h, dc)
          [] pc = "cfgAfterLoop" -> Run(ConfigureAfterLoop(s, h), h, dc)
          [] pc = "macCond" -> Run(MacCond(s, h), h, dc)
          [] pc = "macAfterLoop" -> Run(MacAfterLoop(s, h), h, dc)
          [] pc = "configureAdvance" -> Run(ConfigureAdvance(s, h), h, dc)
          [] pc = "configureCatch" -> Run(ConfigureCatch(s, h), h, dc)
          [] pc = "regHaveMac" -> Run(RegisterHaveMac(s, h), h, dc)
          [] pc = "regPost" -> Run(RegisterPost(s, h), h, dc)
          [] pc = "regDone" -> Run(RegisterDone(s, h, dc), h, dc)
          [] OTHER -> s

\* ---------------------------------------------------------------- actions
Free(h) == procs[h].pc = "idle"
Busy == \E h \in Handlers : ~Free(h)
\* A new invocation takes the first slot that holds no running handler.
Slot(h) == Free(h) /\ \A g \in Handlers : g < h => ~Free(g)

\* A click that starts a handler: counted when another handler is running.
Clicked(s) == [s EXCEPT !.overlaps = IF Busy THEN @ + 1 ELSE @]
MayClick == Busy => overlaps < MaxOverlap

\* The link a handler's BLE operations go over is up.
LinkUp(h) == procs[h].kind = "send" \/ procs[h].bt.dev \in connected

\* Step 0, "Connect via Bluetooth" (disabled while loading): handleNext
ClickConnect ==
    /\ ~navigated /\ activeStep = 0 /\ ~loading
    /\ \E h \in Handlers :
          Slot(h) /\ MayClick
          /\ Becomes(Run(ConnectStart(Clicked(Cur), h), h, TRUE))

\* Step 1, "Configure WiFi"
\* disabled={loading || !selectedNetwork || !wifiPassword}
ClickConfigure ==
    /\ ~navigated /\ activeStep = 1 /\ ~loading
    /\ selectedNetwork # <<>> /\ wifiPassword # <<>>
    /\ \E h \in Handlers :
          Slot(h) /\ MayClick
          /\ Becomes(Run(ConfigureStart(Clicked(Cur), h), h, TRUE))

\* Step 2, "Register Device": disabled={loading || !deviceName.trim()}
ClickRegister ==
    /\ ~navigated /\ activeStep = 2 /\ ~loading
    /\ Trim(deviceName) # <<>>
    /\ \E h \in Handlers :
          Slot(h) /\ MayClick
          /\ Becomes(Run(RegisterStart(Clicked(Cur), h), h, TRUE))

\* handleBack that also drops the stored BLE session.
ClickBackTeardown ==
    /\ ~navigated /\ activeStep \in {1, 2} /\ ~loading
    /\ Becomes([Cur EXCEPT !.activeStep = @ - 1,
                           !.bluetoothDevice = NoSession,
                           !.report.kind = "back"])

\* "Back" at steps 1 and 2 (disabled while loading): handleBack
ClickBack ==
    /\ ~navigated /\ activeStep \in {1, 2} /\ ~loading
    /\ Becomes([Cur EXCEPT !.activeStep = @ - 1, !.report.kind = "back"])

\* registerDevice called with a device name that is empty once trimmed, which
\* the Register button (disabled={... || !deviceName.trim()}) does not let
\* the user do: the function's own check is what answers.
CallRegisterDevice ==
    /\ ~navigated /\ activeStep = 2
    /\ Trim(deviceName) = <<>>
    /\ \E h \in Handlers :
          Slot(h) /\ MayClick
          /\ Becomes(Run(RegisterStart(Clicked(Cur), h), h, TRUE))

\* configureWifi called without a selected network or without a password,
\* which the Configure WiFi button
\* (disabled={... || !selectedNetwork || !wifiPassword}) does not let the
\* user do.
CallConfigureWifi ==
    /\ ~navigated /\ activeStep = 1
    /\ selectedNetwork = <<>> \/ wifiPassword = <<>>
    /\ \E h \in Handlers :
          Slot(h) /\ MayClick
          /\ Becomes(Run(ConfigureStart(Clicked(Cur), h), h, TRUE))

\* The form fields, each disabled while loading.  The user types while no
\* handler runs: a handler reads the fields when it is clicked and at no
\* other time, so that typing commutes with every step of a handler.
SetSelectedNetwork ==
    /\ ~navigated /\ activeStep = 1 /\ ~loading /\ ~Busy
    /\ \E k \in 1..Len(wifiNetworks) :
          /\ wifiNetworks[k] # selectedNetwork
          /\ Becomes([Cur EXCEPT !.selectedNetwork = wifiNetworks[k]])

SetWifiPassword ==
    /\ ~navigated /\ activeStep = 1 /\ ~loading /\ ~Busy
    /\ \E v \in Passwords \ {wifiPassword} :
          Becomes([Cur EXCEPT !.wifiPassword = v])

SetDeviceName ==
    /\ ~navigated /\ activeStep = 2 /\ ~loading /\ ~Busy
    /\ \E v \in DeviceNames \ {deviceName} :
          Becomes([Cur EXCEPT !.deviceName = v])

\* The peer drops the link.
PeerDisconnect ==
    \E d \in connected : Becomes([Cur EXCEPT !.connected = @ \ {d}])

\* The 3000 ms timer of registerDevice fires: router.push('/devices')
RedirectFire ==
    /\ redirect > 0
    /\ Becomes([Cur EXCEPT !.redirect = @ - 1, !.navigated = TRUE])

\* The devices the picker may give: one the flow has met, or the first it
\* has not (devices are interchangeable).
Met == ({bluetoothDevice.dev} \cup connected
           \cup {procs[h].bt.dev : h \in Handlers}) \cap Devices
Pickable ==
    Met \cup {d \in Devices : \A e \in Devices \ Met : DevIndex(d) <= DevIndex(e)}

\* navigator.bluetooth.requestDevice settled.
RequestDeviceSettle(h) ==
    /\ procs[h].pc = "requestDevice"
    /\ \/ Becomes(Run(At(Cur, h, "connectCatch"), h, TRUE))
       \/ \E d \in Pickable, gatt \in BOOLEAN :
             Becomes(Run(ConnectGotDevice(Cur, h, d, gatt), h, TRUE))

\* device.gatt.connect() settled.
GattConnectSettle(h) ==
    /\ procs[h].pc = "gattConnect"
    /\ \/ Becomes(Run(At(Cur, h, "connectCatch"), h, TRUE))
       \/ Becomes(At([Cur EXCEPT !.connected = @ \cup {procs[h].bt.dev}],
                     h, "getService"))

\* server.getPrimaryService settled.
GetServiceSettle(h) ==
    /\ procs[h].pc = "getService"
    /\ \/ Becomes(Run(At(Cur, h, "connectCatch"), h, TRUE))
       \/ LinkUp(h) /\ Becomes(At(Cur, h, "getChar"))

\* service.getCharacteristic settled.
GetCharSettle(h) ==
    /\ procs[h].pc = "getChar"
    /\ \/ Becomes(Run(At(Cur, h, "connectCatch"), h, TRUE))
       \/ /\ LinkUp(h)
          /\ Becomes(Run(At([Cur EXCEPT !.procs[h].bt.hasChar = TRUE],
                            h, "connectGotChar"), h, TRUE))

\* characteristic.writeValue settled.
WriteSettle(h) ==
    /\ procs[h].pc = "write"
    /\ \E o \in {"ok"} \cup Throws, dc \in BOOLEAN :
          /\ o = "ok" => LinkUp(h)
          /\ dc \/ procs[h].ctx = "regcmd"
          /\ Becomes(Run(WriteSettled(Cur, h, o), h, dc))

\* characteristic.readValue settled.
ReadSettle(h) ==
    /\ procs[h].pc = "read"
    /\ \E o \in ReadOutcomes :
          /\ o.kind \notin Throws => LinkUp(h)
          /\ Becomes(Run(ReadSettled(Cur, h, o), h, TRUE))

\* apiFetch('/server-info') settled (it throws for a failed request).
ServerInfoSettle(h) ==
    /\ procs[h].pc = "serverInfo"
    /\ \/ Becomes(At(Cur, h, "serverInfoJson"))
       \/ Becomes(Run(At([Cur EXCEPT !.procs[h].exc = "other"], h,
                         "configureCatch"), h, TRUE))

\* serverInfoResponse.json() settled.
ServerInfoJsonSettle(h) ==
    /\ procs[h].pc = "serverInfoJson"
    /\ \/ Becomes(Run(ConfigureSend(Cur, h), h, TRUE))
       \/ Becomes(Run(At([Cur EXCEPT !.procs[h].exc = "other"], h,
                         "configureCatch"), h, TRUE))

\* apiFetch('/devices', POST) settled: it throws for a network error and
\* for a response that is not ok.
PostSettle(h) ==
    /\ procs[h].pc = "post"
    /\ \/ Becomes(At(Cur, h, "postJson"))
       \/ Becomes(Run(RegisterCatch(Cur, h), h, TRUE))

\* response.json() of the registration settled.
PostJsonSettle(h) ==
    /\ procs[h].pc = "postJson"
    /\ \/ \E dc \in BOOLEAN :
             Becomes(Run(RegisterGotDevice(Cur, h, "id1"), h, dc))
       \/ Becomes(Run(RegisterCatch(Cur, h), h, TRUE))

\* sendBleCommand called on its own.
SendCall(h) ==
    /\ procs[h].pc = "call"
    /\ Becomes(Run(SendStart(Cur, h, procs[h].enc, "send"), h, TRUE))

\* ----------------------------------------------------------- specification
Init ==
    /\ rev \in Revs
    /\ supported \in BOOLEAN
    /\ urlMac \in {NoMac, "AA:01"}
    /\ activeStep = 0 /\ loading = FALSE
    /\ error = "none"
    /\ deviceName = <<>> /\ wifiNetworks = <<>>
    /\ selectedNetwork = <<>> /\ wifiPassword = <<>>
    /\ bluetoothDevice = NoSession /\ registeredDeviceId = "null"
    /\ connected = {} /\ redirect = 0 /\ navigated = FALSE
    /\ report = NoReport /\ overlaps = 0
    /\ macPeer = NotTraced /\ cfgPeer = NotTraced
    /\ procs = [h \in Handlers |-> Idle]

Next ==
    \/ ClickConnect \/ ClickConfigure \/ ClickRegister \/ ClickBack
    \/ SetSelectedNetwork \/ SetWifiPassword \/ SetDeviceName
    \/ PeerDisconnect \/ RedirectFire
    \/ \E h \in Handlers :
          \/ RequestDeviceSettle(h) \/ GattConnectSettle(h)
          \/ GetServiceSettle(h) \/ GetCharSettle(h)
          \/ WriteSettle(h) \/ ReadSettle(h)
          \/ ServerInfoSettle(h) \/ ServerInfoJsonSettle(h)
          \/ PostSettle(h) \/ PostJsonSettle(h)

Spec == Init /\ [][Next]_vars

\* The flow with registerDevice and configureWifi also called past their
\* buttons' guards
NextCall == Next \/ CallRegisterDevice \/ CallConfigureWifi

SpecCall == Init /\ [][NextCall]_vars

\* Revision 2, which asks the peer for the MAC when it connects, opened
\* without a deviceMac in the URL, with the peers recorded
InitPeers ==
    /\ rev = 2
    /\ supported = TRUE /\ urlMac = NoMac
    /\ activeStep = 0 /\ loading = FALSE
    /\ error = "none"
    /\ deviceName = <<>> /\ wifiNetworks = <<>>
    /\ selectedNetwork = <<>> /\ wifiPassword = <<>>
    /\ bluetoothDevice = NoSession /\ registeredDeviceId = "null"
    /\ connected = {} /\ redirect = 0 /\ navigated = FALSE
    /\ report = NoReport /\ overlaps = 0
    /\ macPeer = "none" /\ cfgPeer = "none"
    /\ procs = [h \in Handlers |-> Idle]

SpecPeers == InitPeers /\ [][Next]_vars

\* sendBleCommand on its own, over every payload of 1..MaxLen bytes
Payload(n) == [k \in 1..n |-> k]

InitSend ==
    /\ rev \in Revs
    /\ supported = TRUE /\ urlMac = NoMac
    /\ activeStep = 0 /\ loading = FALSE
    /\ error = "none"
    /\ deviceName = <<>> /\ wifiNetworks = <<>>
    /\ selectedNetwork = <<>> /\ wifiPassword = <<>>
    /\ bluetoothDevice = NoSession /\ registeredDeviceId = "null"
    /\ connected = {} /\ redirect = 0 /\ navigated = FALSE
    /\ report = NoReport /\ overlaps = 0
    /\ macPeer = NotTraced /\ cfgPeer = NotTraced
    /\ \E n \in 1..MaxLen :
          procs = [h \in Handlers |->
                      IF h = 1 THEN [Idle EXCEPT !.kind = "send",
                                                 !.pc = "call",
                                                 !.enc = Payload(n)]
                      ELSE Idle]

NextSend ==
    \E h \in Handlers :
        SendCall(h) \/ WriteSettle(h)

SpecSend == InitSend /\ [][NextSend]_vars

\* ------------------------------------------------------------ properties
\* handleNext: the handler the Next button of step n runs.
StepHandler(n) ==
    CASE n = 0 -> "connect" [] n = 1 -> "configure" [] OTHER -> "register"

\* The step just taken returned from handler kind.
Returned(kind) == report.finished /\ report.kind = kind

\* The exchanges that read in a retry loop.
LoopExchanges == {"scan", "configure", "getmac1"}

Ceil(a, b) == (a + b - 1) \div b

\* C1: when a write or a read of the configure_wifi exchange throws a GATT
\* operation failure (revisions 2 and 3, which classify it), configureWifi
\* advances to step 2 if deviceMac is known, and otherwise sets an error and
\* leaves activeStep alone.
C1_GattFailureOutcome ==
    (rev # 1 /\ Returned("configure") /\ report.gatt)
        => IF report.deviceMac # NoMac
           THEN report.setStep = 2 /\ ~report.setErr
           ELSE report.setErr /\ report.setStep = -1

\* C2: connectToDevice sets activeStep to 1 only in a run whose scan stored
\* a network list in wifiNetworks; a run that stored none sets an error and
\* leaves activeStep alone.
C2_ConnectAdvancesOnlyAfterScan ==
    Returned("connect")
        => /\ report.setStep = 1 => report.stored
           /\ ~report.stored => report.setErr /\ report.setStep = -1

\* C3: configureWifi (revisions 1 and 2, which read the status) does not
\* advance to step 2 when the last status the peer answered is "error" and
\* no GATT failure ended the exchange.
C3_NoAdvanceAfterStatusError ==
    (rev # 3 /\ Returned("configure") /\ report.status = "error"
        /\ ~report.gatt)
        => report.setStep # 2

\* The configure_wifi exchange ended in this step with all its reads used,
\* none of which threw or carried a status.
ConfigureExhausted ==
    /\ Returned("configure")
    /\ report.ex.ctx = "configure"
    /\ report.ex.reads = MaxRetries
    /\ report.ex.quiet

C5_PostNeedsNameAndMac ==
    \A h \in Handlers :
        procs[h].pc = "post"
            => /\ Trim(procs[h].body.name) # <<>>
               /\ procs[h].body.name = procs[h].name
               /\ procs[h].body.device_id \in Macs
               /\ procs[h].body.device_id = procs[h].macAddress
               /\ procs[h].deviceMac # NoMac
                     => procs[h].body.device_id = procs[h].deviceMac

C5_Witness ==
    \E h \in Handlers :
        /\ procs[h].pc = "post" /\ procs[h].deviceMac = NoMac
        /\ procs[h].body.device_id = "AA:02"
        /\ procs[h].body.name = <<"d", "e", "v">>

\* C6: a payload of L > BLE_MTU_SIZE bytes is written in Ceil(L / 20) calls
\* of writeValue, none of more than 20 bytes, one at a time in the order of
\* the payload, and the chunks written, put end to end, are the payload.
C6_ChunkedWrites ==
    /\ \A h \in Handlers :
          (procs[h].kind = "send" /\ procs[h].pc = "write"
              /\ Len(procs[h].enc) > BLE_MTU_SIZE)
            => /\ Len(procs[h].written) = procs[h].i \div BLE_MTU_SIZE + 1
               /\ Flatten(procs[h].written) =
                     SubSeq(procs[h].enc, 1,
                            Min(procs[h].i + BLE_MTU_SIZE, Len(procs[h].enc)))
    /\ (Returned("send") /\ ~report.sendThrew
           /\ Len(report.enc) > BLE_MTU_SIZE)
         => /\ Len(report.written) = Ceil(Len(report.enc), BLE_MTU_SIZE)
            /\ \A k \in 1..Len(report.written) :
                  Len(report.written[k]) \in 1..BLE_MTU_SIZE
            /\ Flatten(report.written) = report.enc

C6_Witness ==
    /\ Returned("send") /\ ~report.sendThrew
    /\ Len(report.enc) = 2 * BLE_MTU_SIZE + 1
    /\ Len(report.written) = 3 /\ Len(report.written[3]) = 1

\* C7: a payload of at most BLE_MTU_SIZE bytes, 20 included, is written in
\* one call of writeValue whose argument is the whole payload.
C7_SingleWrite ==
    /\ \A h \in Handlers :
          (procs[h].kind = "send" /\ procs[h].pc = "write"
              /\ Len(procs[h].enc) <= BLE_MTU_SIZE)
            => procs[h].written = <<procs[h].enc>>
    /\ (Returned("send") /\ Len(report.enc) <= BLE_MTU_SIZE)
         => report.written = <<report.enc>>

C7_Witness ==
    /\ Returned("send") /\ ~report.sendThrew
    /\ Len(report.enc) = BLE_MTU_SIZE
    /\ report.written = <<report.enc>>

\* C8: an exchange with a retry loop makes at most 5 reads, waits its
\* warm-up once before the first read, takes at most 4 waits between
\* attempts, and ends without a wait after its last read.
C8_RetryBudget ==
    /\ \A h \in Handlers :
          procs[h].cur.ctx \in LoopExchanges
            => /\ procs[h].cur.reads <= MaxRetries
               /\ procs[h].cur.waits <= MaxRetries - 1
               /\ procs[h].cur.warmups <= 1
               /\ procs[h].cur.reads >= 1 => procs[h].cur.warmups = 1
    /\ report.ex.ctx \in LoopExchanges
         => /\ report.ex.reads <= MaxRetries
            /\ report.ex.waits <= MaxRetries - 1
            /\ report.ex.reads >= 1 => report.ex.warmups = 1
            /\ ~report.ex.trailing

\* C9: no two handlers have a writeValue or readValue outstanding on the
\* characteristic of one device at once.
C9_OneOutstandingOperation ==
    \A g, h \in Handlers :
        (g # h /\ procs[g].pc \in {"write", "read"}
               /\ procs[h].pc \in {"write", "read"})
            => procs[g].bt.dev # procs[h].bt.dev

\* C10: activeStep stays in 0..3, and a step changes it either by +1, in
\* the return of the handler of the step that was active, or by -1, in
\* handleBack.
C10_StepChanges ==
    [][activeStep' # activeStep
          => /\ activeStep' \in 0..3
             /\ \/ /\ activeStep' = activeStep + 1
                   /\ report'.finished
                   /\ report'.kind = StepHandler(activeStep)
                   /\ report'.setStep = activeStep'
                \/ /\ activeStep' = activeStep - 1
                   /\ report'.kind = "back"]_vars

\* The exchanges that send get_mac.
MacExchanges == {"getmac1", "getmac2"}

\* C11: a handler whose deviceMac is known (the URL held a MAC when it was
\* invoked) sends no get_mac command: no get_mac exchange is under way in a
\* handler that has a deviceMac.
C11_NoMacQueryOnceKnown ==
    \A h \in Handlers :
        procs[h].cur.ctx \in MacExchanges => procs[h].deviceMac = NoMac

\* C12: once the page has a deviceMac, no step changes it, neither to
\* another MAC nor back to null.
C12_MacNeverOverwritten ==
    [][urlMac # NoMac => urlMac' = urlMac]_vars

\* C13: registerDevice called with a deviceName that is empty or all white
\* space returns at once: it sets the error about the name, and leaves
\* activeStep, loading and the BLE session as they were; it starts no POST
\* and no BLE operation (no handler is left waiting for one), sets no
\* registeredDeviceId and schedules no redirect.
C13_BlankNameRejected ==
    [][(Trim(deviceName) = <<>> /\ report'.finished
           /\ report'.kind = "register")
          => /\ report'.setErr /\ error' = "name"
             /\ report'.setStep = -1 /\ activeStep' = activeStep
             /\ loading' = loading
             /\ bluetoothDevice' = bluetoothDevice
             /\ connected' = connected
             /\ procs' = procs
             /\ registeredDeviceId' = registeredDeviceId
             /\ redirect' = redirect]_vars

C13_Witness ==
    /\ Returned("register") /\ error = "name" /\ deviceName = <<" ">>
    /\ activeStep = 2 /\ bluetoothDevice.hasChar
    /\ bluetoothDevice.dev \in connected
    /\ \A h \in Handlers : Free(h)

\* C14: when read number k of the scan_wifi exchange (k in 1..5) answers a
\* list of networks that is not empty, and the k-1 reads before it returned
\* an empty payload, that read is the last: the exchange ends with k reads
\* and the k-1 waits between them, wifiNetworks is the list as the peer
\* gave it (repeated SSIDs kept, order kept), no error is set and
\* connectToDevice returns with activeStep 1.
C14_ScanStoresOnKthRead ==
    (report.stored /\ report.ex.blank)
        => /\ Returned("connect")
           /\ report.ex.ctx = "scan"
           /\ report.ex.reads \in 1..MaxRetries
           /\ report.ex.waits = report.ex.reads - 1
           /\ wifiNetworks \in NetworkLists \ {<<>>}
           /\ ~report.setErr
           /\ report.setStep = 1 /\ activeStep = 1

C14_Witness ==
    /\ report.stored /\ report.ex.blank /\ report.ex.ctx = "scan"
    /\ report.ex.reads = MaxRetries
    /\ wifiNetworks = <<HomeNet, Guest, HomeNet>>
    /\ activeStep = 1

\* C15: handleBack takes one from activeStep and changes nothing else: the
\* stored BLE session and the link stay, the form fields, the networks, the
\* error and deviceMac keep their values, and every handler that is waiting
\* for a BLE or backend operation goes on waiting for it.
C15_BackOnlyDecrements ==
    [][report'.kind = "back"
          => /\ activeStep' = activeStep - 1
             /\ UNCHANGED <<rev, supported, loading, error, deviceName,
                            wifiNetworks, selectedNetwork, wifiPassword,
                            bluetoothDevice, registeredDeviceId, urlMac,
                            connected, redirect, navigated, overlaps,
                            procs, macPeer, cfgPeer>>]_vars

C15_Witness ==
    /\ report.kind = "back" /\ activeStep = 1
    /\ bluetoothDevice.hasChar /\ bluetoothDevice.dev \in connected
    /\ wifiNetworks # <<>> /\ selectedNetwork # <<>> /\ wifiPassword # <<>>
    /\ \E h \in Handlers : procs[h].pc \in {"write", "read"}

\* C16: once activeStep is 3 no step changes it.
C16_DoneIsTerminal ==
    [][activeStep = 3 => activeStep' = 3]_vars

\* C17: when the POST /devices of registerDevice fails (apiFetch throws, or
\* the response is not ok), registerDevice returns in that step with its
\* error set and without setting activeStep; it sends no register_device
\* command, leaves the GATT link and registeredDeviceId as they were, and
\* schedules no redirect.
C17_PostFailureIsFatal ==
    [][\A h \in Handlers :
          (procs[h].pc = "post" /\ procs'[h].pc \notin {"post", "postJson"})
            => /\ report'.finished /\ report'.kind = "register"
               /\ report'.setErr /\ error' = "register"
               /\ report'.setStep = -1 /\ activeStep' = activeStep
               /\ procs'[h] = Idle
               /\ connected' = connected
               /\ bluetoothDevice' = bluetoothDevice
               /\ registeredDeviceId' = registeredDeviceId
               /\ redirect' = redirect
               /\ ~loading']_vars

C17_Witness ==
    /\ Returned("register") /\ report.setErr /\ error = "register"
    /\ activeStep = 2 /\ registeredDeviceId = "null" /\ redirect = 0
    /\ bluetoothDevice.dev \in connected
    /\ \A h \in Handlers : Free(h)

\* The step is handler h's writeValue settling with the rejection o.
WriteRejected(h, o) ==
    /\ procs[h].pc = "write"
    /\ \E dc \in BOOLEAN : Becomes(Run(WriteSettled(Cur, h, o), h, dc))

\* The step is handler h's readValue settling with outcome o.
ReadGave(h, o) ==
    /\ procs[h].pc = "read"
    /\ Becomes(Run(ReadSettled(Cur, h, o), h, TRUE))

\* C18: when a writeValue of the register_device command is rejected,
\* registerDevice still returns in that step with activeStep 3 and without
\* an error; and a registerDevice whose peer is not connected when the
\* backend has answered sends no register_device command.
C18_DeviceSideIsBestEffort ==
    [][\A h \in Handlers :
          /\ \A o \in Throws :
                (procs[h].ctx = "regcmd" /\ WriteRejected(h, o))
                  => /\ report'.finished /\ report'.kind = "register"
                     /\ report'.setStep = 3 /\ activeStep' = 3
                     /\ ~report'.setErr /\ error' = error
                     /\ redirect' = redirect + 1
                     /\ procs'[h] = Idle
          /\ (procs[h].pc = "postJson" /\ procs[h].bt.dev \notin connected)
                => procs'[h].pc # "write"]_vars

C18_Witness ==
    /\ rev = 2 /\ Returned("register") /\ report.sendThrew
    /\ report.setStep = 3 /\ activeStep = 3 /\ ~report.setErr
    /\ error = "none" /\ registeredDeviceId # "null"

\* C19: when the writeValue of chunk k is rejected, sendBleCommand returns
\* in that step by throwing: the writes made are the k made so far, chunk k
\* once, and no chunk after k is written.
C19_WriteFailureNotRetried ==
    [][\A h \in Handlers : \A o \in Throws :
          (procs[h].kind = "send" /\ WriteRejected(h, o))
            => /\ report'.finished /\ report'.kind = "send"
               /\ report'.sendThrew
               /\ report'.enc = procs[h].enc
               /\ report'.written = procs[h].written
               /\ procs'[h] = Idle]_vars

C19_Witness ==
    /\ Returned("send") /\ report.sendThrew
    /\ Len(report.enc) = 2 * BLE_MTU_SIZE + 1
    /\ report.written = <<Slice(report.enc, 0), Slice(report.enc, BLE_MTU_SIZE)>>

\* What a read gives when it gives no parsed object.
FailedReads == {o \in ReadOutcomes : o.kind # "json"}

\* C20: a read of the scan_wifi loop that throws, returns an empty payload
\* or returns text that is no JSON takes one attempt; with attempts left the
\* loop waits once and reads again, and with none left the exchange ends
\* without another read.
C20_FailedScanReadRetries ==
    [][\A h \in Handlers : \A o \in FailedReads :
          (procs[h].ctx = "scan" /\ ReadGave(h, o))
            => IF procs[h].retries > 1
               THEN /\ procs'[h].pc = "read"
                    /\ procs'[h].retries = procs[h].retries - 1
                    /\ procs'[h].cur.reads = procs[h].cur.reads + 1
                    /\ procs'[h].cur.waits = procs[h].cur.waits + 1
                    /\ ~report'.finished /\ ~report'.setErr
               ELSE /\ report'.ex.ctx = "scan"
                    /\ report'.ex.reads = procs[h].cur.reads
                    /\ procs'[h].pc # "read"]_vars

C20_Witness ==
    \E h \in Handlers :
        /\ procs[h].pc = "read" /\ procs[h].ctx = "scan"
        /\ procs[h].cur.reads = MaxRetries /\ procs[h].cur.waits = MaxRetries - 1
        /\ ~procs[h].cur.quiet

\* What a scan read gives when the peer reports no network.
EmptyList == [kind |-> "json", r |-> [NoResp EXCEPT !.has = "networks"]]

\* C21: a scan_wifi read that answers {networks: []} is not accepted: with
\* attempts left the loop waits and reads again, and with none left the
\* exchange ends with the scan error set.
C21_EmptyListNotAccepted ==
    [][\A h \in Handlers :
          (procs[h].ctx = "scan" /\ ReadGave(h, EmptyList))
            => IF procs[h].retries > 1
               THEN procs'[h].pc = "read" /\ procs'[h].ctx = "scan"
               ELSE report'.ex.ctx = "scan" /\ error' = "scan"]_vars

\* The step is an invocation of configureWifi that takes slot h.
ConfigureCalled(h) ==
    /\ Slot(h)
    /\ Becomes(Run(ConfigureStart(Clicked(Cur), h), h, TRUE))

\* The step is an invocation of connectToDevice that takes slot h.
ConnectCalled(h) ==
    /\ Slot(h)
    /\ Becomes(Run(ConnectStart(Clicked(Cur), h), h, TRUE))

\* C22: configureWifi called without a stored characteristic, without a
\* selected network or with an empty password returns at once with an error
\* set: no handler is left waiting for /server-info or for a BLE operation,
\* and activeStep, loading and the session are as they were.
C22_ConfigureGuards ==
    [][\A h \in Handlers :
          ((~bluetoothDevice.hasChar \/ selectedNetwork = <<>>
               \/ wifiPassword = <<>>) /\ ConfigureCalled(h))
            => /\ report'.finished /\ report'.kind = "configure"
               /\ report'.setErr
               /\ error' = IF bluetoothDevice.hasChar THEN "selectNetwork"
                           ELSE "notConnected"
               /\ report'.setStep = -1 /\ activeStep' = activeStep
               /\ loading' = loading
               /\ procs' = procs
               /\ bluetoothDevice' = bluetoothDevice
               /\ connected' = connected]_vars

C22_Witness ==
    /\ Returned("configure") /\ error = "selectNetwork" /\ activeStep = 1
    /\ bluetoothDevice.hasChar /\ bluetoothDevice.dev \in connected
    /\ selectedNetwork # <<>> /\ wifiPassword = <<>>
    /\ \A h \in Handlers : Free(h)

\* C23: without navigator.bluetooth, connectToDevice returns in the step
\* in which it is called: the error is set, no handler is left waiting for
\* the device picker or for a GATT operation, no session is stored,
\* activeStep stays 0 and loading is false.
C23_UnsupportedFailsAtOnce ==
    [][\A h \in Handlers :
          (~supported /\ ConnectCalled(h))
            => /\ report'.finished /\ report'.kind = "connect"
               /\ report'.setErr /\ error' = "connect"
               /\ report'.setStep = -1 /\ activeStep' = 0
               /\ ~loading'
               /\ procs' = procs
               /\ bluetoothDevice' = bluetoothDevice
               /\ connected' = connected]_vars

C23_Witness ==
    /\ ~supported /\ Returned("connect") /\ report.setErr
    /\ error = "connect" /\ activeStep = 0 /\ ~loading
    /\ bluetoothDevice = NoSession /\ connected = {}
    /\ \A h \in Handlers : Free(h)

\* How far a connectToDevice invocation has come: 0 before the picker and
\* after its return, then the operation it is waiting for.
Stage(p) ==
    CASE p.kind # "connect" -> 0
      [] p.pc = "requestDevice" -> 1
      [] p.pc = "gattConnect" -> 2
      [] p.pc = "getService" -> 3
      [] p.pc = "getChar" -> 4
      [] p.ctx = "getmac2" /\ p.pc = "write" -> 5
      [] p.ctx = "getmac2" /\ p.pc = "read" -> 6
      [] p.ctx = "scan" /\ p.pc = "write" -> 7
      [] p.ctx = "scan" /\ p.pc = "read" -> 8
      [] OTHER -> 0

\* C24: connectToDevice asks for the device, then connects, then looks up
\* the service, then the characteristic, each after the one before it
\* resolved; it stores the session in the step in which the characteristic
\* lookup resolved, with the characteristic; it sends get_mac only then, only
\* in revision 2 and only without a deviceMac; and it sends scan_wifi after
\* the session is stored and after the get_mac exchange, if any, is over.
C24_ConnectOrder ==
    [][\A h \in Handlers :
          LET a == Stage(procs[h])
              b == Stage(procs'[h])
          IN  (procs'[h] # procs[h]
                 /\ "connect" \in {procs[h].kind, procs'[h].kind})
                => /\ b = 1 => a = 0
                   /\ b \in 2..4 => a = b - 1
                   /\ (b = 5 /\ a # 5)
                        => a = 4 /\ rev = 2 /\ procs[h].deviceMac = NoMac
                   /\ b = 6 => a = 5
                   /\ (b = 7 /\ a # 7) => a \in 4..6
                   /\ b = 8 => a \in {7, 8}
                   /\ b >= 5 => bluetoothDevice'.dev = procs'[h].bt.dev
                   /\ (a <= 4 /\ b >= 5) => bluetoothDevice'.hasChar
                   /\ bluetoothDevice' # bluetoothDevice
                        => a = 4 /\ bluetoothDevice'.hasChar]_vars

\* C25: when an invocation of connectToDevice, configureWifi or
\* registerDevice has returned, loading is false.
C25_SettledNotLoading ==
    (report.finished /\ report.kind \in {"connect", "configure", "register"})
        => ~loading

\* C26: whenever activeStep is 2 (Register), the deviceMac is known.
C26_RegisterStepHasMac == activeStep = 2 => urlMac # NoMac

\* The handlers whose POST /devices has been sent and not yet answered.
PostsOutstanding == {h \in Handlers : procs[h].pc = "post"}

\* C27: at most one POST /devices is outstanding at any time.
C27_OnePostOutstanding == Cardinality(PostsOutstanding) <= 1

\* C28: at most one GATT connection opened by the flow is live at any time.
C28_OneLiveConnection == Cardinality(connected) <= 1

\* C29: with no deviceMac in the URL, the device_id of a POST /devices is
\* the MAC that was sent by the peer to which the most recent configure_wifi
\* command went.
C29_PostedMacIsOfConfiguredPeer ==
    [][\A h \in Handlers :
          (procs[h].pc # "post" /\ procs'[h].pc = "post")
            => /\ procs'[h].macAddress = urlMac'
               /\ macPeer' = cfgPeer']_vars

\* The step is the one in which registerDevice of slot h gets past its last
\* await, with a disconnect() that returns (dc) or throws (~dc) if it is
\* called.
RegisterLastStep(h, dc) ==
    \/ /\ procs[h].pc = "postJson"
       /\ Becomes(Run(RegisterGotDevice(Cur, h, "id1"), h, dc))
    \/ /\ procs[h].pc = "write" /\ procs[h].ctx = "regcmd"
       /\ \E o \in {"ok"} \cup Throws :
             Becomes(Run(WriteSettled(Cur, h, o), h, dc))

\* C30: when registerDevice has set activeStep to 3, no error is set and
\* the redirect is scheduled, whether disconnect() returned or threw; and
\* when it did not throw, the link of the stored session is not connected.
C30_DoneDisconnects ==
    [][\A h \in Handlers : \A dc \in BOOLEAN :
          (RegisterLastStep(h, dc) /\ report'.setStep = 3)
            => /\ report'.finished /\ ~report'.setErr
               /\ redirect' = redirect + 1
               /\ dc => bluetoothDevice'.dev \notin connected']_vars

==========================================================================
